---- MODULE Spec2Model ----
(***************************************************************************)
(* Model of src/main.rs: the walk that turns the frontend's entity tree    *)
(* of a translation unit into a SourceFile declaration model.              *)
(*                                                                         *)
(* The frontend (libclang) is an input: the model draws the outcome of     *)
(* each parse and the top-level entities of each translation unit from     *)
(* small sets.  One action is one iteration of a loop of the program (one  *)
(* file of main's loop, one top-level entity of SourceFile::visit_entity), *)
(* with everything the iteration calls.  A Rust panic ends the process:    *)
(* pc = "aborted".                                                         *)
(***************************************************************************)
EXTENDS Naturals, Sequences, FiniteSets

\* ------------------------------------------------------------------ bounds
MaxFiles == 2
MaxChildren == 3
MaxMembers == 1
MaxArgs == 1

\* ------------------------------------------------------ the frontend's data
\* Option<String>: a name is a string, the absent name is None.
None == "None"

MainPath == "main.c"
HeaderPath == "header.h"

TagNames == {"A", "B"}
FunctionNames == {"f"}
FieldNames == {"x"}
ParamNames == {"p"}

RECURSIVE SeqsUpTo(_, _)
SeqsUpTo(S, n) ==
    IF n = 0 THEN {<<>>}
    ELSE LET shorter == SeqsUpTo(S, n - 1)
         IN shorter \cup {Append(s, x) : s \in {t \in shorter : Len(t) = n - 1}, x \in S}

\* An entity below the top level: kind, optional name, file of its location,
\* children.
Ent(kind, name, path, children) ==
    [kind |-> kind, name |-> name, path |-> path, children |-> children]

\* Type::get_declaration() of a builtin type: no declaration entity.
NoDecl == Ent("NoDecl", None, None, <<>>)

\* The members a struct entity can have: an anonymous union (with one
\* field), a nested struct declaration.
MemberEntities(path) ==
    {Ent("UnionDecl", None, path, <<Ent("FieldDecl", n, path, <<>>)>>) : n \in FieldNames}
    \cup {Ent("StructDecl", None, path, <<>>)}

MemberLists(path) == SeqsUpTo(MemberEntities(path), MaxMembers)

\* A top-level entity: an Ent plus the typedef's underlying declaration and
\* the function's arguments (has_args = FALSE: get_arguments() is None).
Top(kind, name, path, children, decl, has_args, args) ==
    [kind |-> kind, name |-> name, path |-> path, children |-> children,
     decl |-> decl, has_args |-> has_args, args |-> args]

Tag(kind, name, path, children) == Top(kind, name, path, children, NoDecl, FALSE, <<>>)

\* enum and union declarations of the main file, named or anonymous
\* (forward declarations: no children).
MainEnums == {Tag("EnumDecl", n, MainPath, <<>>) : n \in {"A", None}}
MainUnions == {Tag("UnionDecl", n, MainPath, <<>>) : n \in {"A", None}}
\* struct declarations of the main file: forward declarations, named or
\* anonymous, and definitions of struct A with their members.
MainStructs ==
    {Tag("StructDecl", n, MainPath, <<>>) : n \in TagNames \cup {None}}
    \cup {Tag("StructDecl", "A", MainPath, c) : c \in MemberLists(MainPath)}

\* What the underlying type of a typedef can resolve to: nothing (a builtin
\* type), an anonymous struct or union, the struct A of the main file, a
\* struct of an included header, another typedef.
TypedefTargets ==
    {NoDecl,
     Ent("StructDecl", None, MainPath, <<Ent("FieldDecl", "x", MainPath, <<>>)>>),
     Ent("UnionDecl", None, MainPath, <<Ent("FieldDecl", "x", MainPath, <<>>)>>),
     Ent("StructDecl", "A", MainPath, <<>>),
     Ent("StructDecl", "A", HeaderPath, <<Ent("FieldDecl", "x", HeaderPath, <<>>)>>),
     Ent("TypedefDecl", "TA", MainPath, <<>>)}

\* typedefs of the main file: TA of every target, A (the name of a tag) of
\* every target of the main file, and a typedef without a name.
MainTypedefs ==
    {Top("TypedefDecl", "TA", MainPath, <<>>, d, FALSE, <<>>) : d \in TypedefTargets}
    \cup {Top("TypedefDecl", "A", MainPath, <<>>, d, FALSE, <<>>) :
              d \in {t \in TypedefTargets : t.path # HeaderPath /\ t.kind # "UnionDecl"}}
    \cup {Top("TypedefDecl", None, MainPath, <<>>,
              Ent("StructDecl", None, MainPath, <<Ent("FieldDecl", "x", MainPath, <<>>)>>),
              FALSE, <<>>)}

ArgEntities == {Ent("ParmDecl", n, MainPath, <<>>) : n \in ParamNames \cup {None}}

MainFunctions ==
    {Top("FunctionDecl", n, MainPath, <<>>, NoDecl, TRUE, a) :
        n \in FunctionNames, a \in SeqsUpTo(ArgEntities, MaxArgs)}
    \cup {Top("FunctionDecl", None, MainPath, <<>>, NoDecl, FALSE, <<>>)}

\* a top-level entity of a kind the walker does not know.
MainOthers == {Tag("VarDecl", "A", MainPath, <<>>)}

\* entities of an included header: the walker never looks at them.
HeaderEntities ==
    {Tag("StructDecl", "A", HeaderPath, <<Ent("FieldDecl", "x", HeaderPath, <<>>)>>)}

TopEntities ==
    MainEnums \cup MainUnions \cup MainStructs \cup MainTypedefs
    \cup MainFunctions \cup MainOthers \cup HeaderEntities

is_in_main_file(e) == e.path = MainPath

\* ------------------------------------------------------- results and panics
\* A call either returns a value or panics (assert_eq!, unwrap, panic!).
Ok(v) == [ok |-> TRUE, val |-> v]
Panic == [ok |-> FALSE, val |-> <<>>]

\* --------------------------------------------------------- declaration nodes
\* Every node of the model: which struct it is, its name (the tag name of an
\* aggregate), its typedef alias, the file of its SourceLocation (None until
\* visit_entity), its members.
Node(node, name, typedef_name, location, fields) ==
    [node |-> node, name |-> name, typedef_name |-> typedef_name,
     location |-> location, fields |-> fields]

EnumConstantDeclare_new(name) == Node("EnumConstantDeclare", name, None, None, <<>>)
EnumDeclare_new(enum_name, typedef_name) == Node("EnumDeclare", enum_name, typedef_name, None, <<>>)
FieldDeclare_new(name) == Node("FieldDeclare", name, None, None, <<>>)
StructDeclare_new(struct_name, typedef_name) == Node("StructDeclare", struct_name, typedef_name, None, <<>>)
UnionDeclare_new(union_name, typedef_name) == Node("UnionDeclare", union_name, typedef_name, None, <<>>)
FunctionDeclare_new(function_name) == Node("FunctionDeclare", function_name, None, None, <<>>)
ParameterDeclare_new(name) == Node("ParameterDeclare", name, None, None, <<>>)

\* The members of a node once each child has been visited: a panic in any
\* child's visit is a panic of the whole.
Collect(self, location, rs) ==
    IF \E i \in DOMAIN rs : ~rs[i].ok THEN Panic
    ELSE Ok([self EXCEPT !.location = location,
                         !.fields = self.fields \o [i \in DOMAIN rs |-> rs[i].val]])

EnumConstantDeclare_visit_entity(self, current_entity) ==
    IF current_entity.kind # "EnumConstantDecl" THEN Panic
    ELSE Ok([self EXCEPT !.location = current_entity.path])

EnumDeclare_visit_entity(self, current_entity) ==
    IF current_entity.kind # "EnumDecl" THEN Panic
    ELSE Collect(self, current_entity.path,
            [i \in DOMAIN current_entity.children |->
                LET child_entity == current_entity.children[i]
                IN IF child_entity.name = None THEN Panic
                   ELSE EnumConstantDeclare_visit_entity(
                            EnumConstantDeclare_new(child_entity.name), child_entity)])

FieldDeclare_visit_entity(self, current_entity) ==
    IF current_entity.kind # "FieldDecl" THEN Panic
    ELSE Ok([self EXCEPT !.location = current_entity.path])

UnionDeclare_visit_entity(self, current_entity) ==
    IF current_entity.kind # "UnionDecl" THEN Panic
    ELSE Collect(self, current_entity.path,
            [i \in DOMAIN current_entity.children |->
                LET child_entity == current_entity.children[i]
                IN FieldDeclare_visit_entity(FieldDeclare_new(child_entity.name), child_entity)])

StructDeclare_visit_entity(self, current_entity) ==
    IF current_entity.kind # "StructDecl" THEN Panic
    ELSE Collect(self, current_entity.path,
            [i \in DOMAIN current_entity.children |->
                LET child_entity == current_entity.children[i]
                IN CASE child_entity.kind = "FieldDecl" ->
                            FieldDeclare_visit_entity(FieldDeclare_new(child_entity.name), child_entity)
                     [] child_entity.kind = "UnionDecl" ->
                            UnionDeclare_visit_entity(UnionDeclare_new(child_entity.name, None), child_entity)
                     [] OTHER -> Panic])

ParameterDeclare_visit_entity(self, current_entity) ==
    IF current_entity.kind # "ParmDecl" THEN Panic
    ELSE Ok([self EXCEPT !.location = current_entity.path])

\* a variant that drops the parameters without a name instead of panicking.
FunctionDeclare_visit_entity_lenient(self, current_entity) ==
    IF current_entity.kind # "FunctionDecl" THEN Panic
    ELSE IF ~current_entity.has_args THEN Ok([self EXCEPT !.location = current_entity.path])
    ELSE Collect(self, current_entity.path,
            [i \in DOMAIN current_entity.args |->
                LET argument == current_entity.args[i]
                IN ParameterDeclare_visit_entity(ParameterDeclare_new(argument.name), argument)])

FunctionDeclare_visit_entity(self, current_entity) ==
    IF current_entity.kind # "FunctionDecl" THEN Panic
    ELSE IF ~current_entity.has_args THEN Ok([self EXCEPT !.location = current_entity.path])
    ELSE Collect(self, current_entity.path,
            [i \in DOMAIN current_entity.args |->
                LET argument == current_entity.args[i]
                IN IF argument.name = None THEN Panic
                   ELSE ParameterDeclare_visit_entity(ParameterDeclare_new(argument.name), argument)])

\* ------------------------------------------------ SourceFile::parse_type_declare
\* declares.push(node.tap(visit)): the node is pushed once its visit returned.
Push(declares, r) == IF r.ok THEN Ok(Append(declares, r.val)) ELSE Panic

\* a variant of the filter that matches the recorded tag against the name of
\* the typedef's underlying declaration instead of the typedef's name.
MergeMatches_byTag(declares, current_entity) ==
    {i \in DOMAIN declares :
        /\ declares[i].name # None
        /\ current_entity.decl.name # None
        /\ declares[i].name = current_entity.decl.name}

\* the indices of the nodes the filter of the typedef branch lets through.
MergeMatches(declares, current_entity) ==
    {i \in DOMAIN declares :
        /\ declares[i].name # None
        /\ current_entity.name # None
        /\ declares[i].name = current_entity.name}

\* a variant that takes the last node of the filter instead of the first.
Min_last(S) == CHOOSE i \in S : \A j \in S : j <= i

Min(S) == CHOOSE i \in S : \A j \in S : i <= j

\* a variant of the merge that takes the node out and puts it back at the end.
SetTypedefName_moved(declares, i, current_entity) ==
    IF current_entity.name # None
    THEN Append([k \in 1..(Len(declares) - 1) |->
                    IF k < i THEN declares[k] ELSE declares[k + 1]],
                [declares[i] EXCEPT !.typedef_name = current_entity.name])
    ELSE declares

\* declare.set_typedef_name(typedef_name) on the first node of the filter.
SetTypedefName(declares, i, current_entity) ==
    IF current_entity.name # None
    THEN [declares EXCEPT ![i].typedef_name = current_entity.name]
    ELSE declares

\* a variant of the typedef branch that forgets the alias of the new node.
TypedefNewDeclare_noAlias(current_entity, declaration_entity) ==
    CASE declaration_entity.kind = "EnumDecl" ->
            EnumDeclare_visit_entity(EnumDeclare_new(None, None), declaration_entity)
      [] declaration_entity.kind = "StructDecl" ->
            StructDeclare_visit_entity(StructDeclare_new(None, None), declaration_entity)
      [] declaration_entity.kind = "UnionDecl" ->
            UnionDeclare_visit_entity(UnionDeclare_new(None, None), declaration_entity)
      [] OTHER -> Panic

\* the node the typedef branch builds when no recorded tag has its name.
TypedefNewDeclare(current_entity, declaration_entity) ==
    CASE declaration_entity.kind = "EnumDecl" ->
            EnumDeclare_visit_entity(EnumDeclare_new(None, current_entity.name), declaration_entity)
      [] declaration_entity.kind = "StructDecl" ->
            StructDeclare_visit_entity(StructDeclare_new(None, current_entity.name), declaration_entity)
      [] declaration_entity.kind = "UnionDecl" ->
            UnionDeclare_visit_entity(UnionDeclare_new(None, current_entity.name), declaration_entity)
      [] OTHER -> Panic

parse_type_declare(current_entity, declares) ==
    CASE current_entity.kind = "EnumDecl" ->
            IF current_entity.name # None
            THEN Push(declares, EnumDeclare_visit_entity(
                                    EnumDeclare_new(current_entity.name, None), current_entity))
            ELSE Ok(declares)
      [] current_entity.kind = "StructDecl" ->
            IF current_entity.name # None
            THEN Push(declares, StructDeclare_visit_entity(
                                    StructDeclare_new(current_entity.name, None), current_entity))
            ELSE Ok(declares)
      [] current_entity.kind = "UnionDecl" ->
            IF current_entity.name # None
            THEN Push(declares, UnionDeclare_visit_entity(
                                    UnionDeclare_new(current_entity.name, None), current_entity))
            ELSE Ok(declares)
      [] current_entity.kind = "TypedefDecl" ->
            IF current_entity.decl = NoDecl THEN Ok(declares)
            ELSE IF MergeMatches(declares, current_entity) # {}
            THEN Ok(SetTypedefName(declares, Min(MergeMatches(declares, current_entity)),
                                   current_entity))
            ELSE Push(declares, TypedefNewDeclare(current_entity, current_entity.decl))
      [] OTHER -> Panic

\* the kinds the walker hands to parse_type_declare.
TypeKinds == {"EnumDecl", "StructDecl", "TypedefDecl"}

\* ---------------------------------------------------------------- the state
VARIABLES
    nfiles,             \* number of file paths on the command line
    file,               \* index of the file main's loop is at (0: none yet)
    pc,                 \* "next_file", "walking", "exit", "aborted"
    cause,              \* why the process aborted: "none", "parse", "panic"
    children,           \* the top-level entities of the current translation
                        \* unit that the walk has reached, in order
    type_declares,      \* SourceFile.type_declares of the current file
    function_declares,  \* SourceFile.function_declares of the current file
    type_origin,        \* for each node of type_declares, the index in
                        \* children of the entity that appended it
    function_origin,    \* the same for function_declares
    status              \* per file: "pending", "printed" (its model was
                        \* printed)

vars == <<nfiles, file, pc, cause, children, type_declares, function_declares,
          type_origin, function_origin, status>>

model == <<type_declares, function_declares, type_origin, function_origin>>

\* the command line names MaxFiles files.
Init ==
    /\ nfiles = MaxFiles
    /\ file = 0
    /\ pc = "next_file"
    /\ cause = "none"
    /\ children = <<>>
    /\ type_declares = <<>>
    /\ function_declares = <<>>
    /\ type_origin = <<>>
    /\ function_origin = <<>>
    /\ status = [f \in 1..nfiles |-> "pending"]

\* ------------------------------------------------------------------- main
\* idx.parser(file_path).parse().unwrap() on a file the frontend rejects.
ParseFails ==
    /\ pc = "next_file"
    /\ file < nfiles
    /\ file' = file + 1
    /\ pc' = "aborted"
    /\ cause' = "parse"
    /\ UNCHANGED <<nfiles, children, model, status>>

\* the parse succeeds (the translation unit's entity is named after the
\* file): SourceFile::new(name), and the walk starts.
ParseOk ==
    /\ pc = "next_file"
    /\ file < nfiles
    /\ file' = file + 1
    /\ pc' = "walking"
    /\ children' = <<>>
    /\ type_declares' = <<>>
    /\ function_declares' = <<>>
    /\ type_origin' = <<>>
    /\ function_origin' = <<>>
    /\ UNCHANGED <<nfiles, cause, status>>

\* the loop over the arguments ends.
Exit ==
    /\ pc = "next_file"
    /\ file = nfiles
    /\ pc' = "exit"
    /\ UNCHANGED <<nfiles, file, cause, children, model, status>>

\* ------------------------------------------------ SourceFile::visit_entity
Abort ==
    /\ pc' = "aborted"
    /\ cause' = "panic"
    /\ UNCHANGED <<model>>

\* a child that is not in the main file: the filter drops it.
SkipEntity(e) ==
    /\ ~is_in_main_file(e)
    /\ UNCHANGED <<pc, cause, model>>

VisitTypeEntity(e) ==
    /\ is_in_main_file(e)
    /\ e.kind \in TypeKinds
    /\ LET r == parse_type_declare(e, type_declares)
       IN IF r.ok
          THEN /\ type_declares' = r.val
               /\ type_origin' = IF Len(r.val) > Len(type_declares)
                                 THEN Append(type_origin, Len(children) + 1)
                                 ELSE type_origin
               /\ UNCHANGED <<pc, cause, function_declares, function_origin>>
          ELSE Abort

VisitFunction(e) ==
    /\ is_in_main_file(e)
    /\ e.kind = "FunctionDecl"
    /\ IF e.name = None THEN Abort
       ELSE LET r == FunctionDeclare_visit_entity(FunctionDeclare_new(e.name), e)
            IN IF r.ok
               THEN /\ function_declares' = Append(function_declares, r.val)
                    /\ function_origin' = Append(function_origin, Len(children) + 1)
                    /\ UNCHANGED <<pc, cause, type_declares, type_origin>>
               ELSE Abort

VisitUnexpected(e) ==
    /\ is_in_main_file(e)
    /\ e.kind \notin TypeKinds \cup {"FunctionDecl"}
    /\ Abort

\* one iteration of the loop over the translation unit's children.
Reach(e) ==
    /\ pc = "walking"
    /\ Len(children) < MaxChildren
    /\ children' = Append(children, e)
    /\ UNCHANGED <<nfiles, file, status>>

Skip == \E e \in TopEntities : Reach(e) /\ SkipEntity(e)
VisitType == \E e \in TopEntities : Reach(e) /\ VisitTypeEntity(e)
VisitFunc == \E e \in TopEntities : Reach(e) /\ VisitFunction(e)
VisitOther == \E e \in TopEntities : Reach(e) /\ VisitUnexpected(e)

\* the walk returns, main prints the model, and the loop body ends: the
\* SourceFile and the translation unit are dropped.
PrintModel ==
    /\ pc = "walking"
    /\ pc' = "next_file"
    /\ status' = [status EXCEPT ![file] = "printed"]
    /\ children' = <<>>
    /\ type_declares' = <<>>
    /\ function_declares' = <<>>
    /\ type_origin' = <<>>
    /\ function_origin' = <<>>
    /\ UNCHANGED <<nfiles, file, cause>>

Next ==
    \/ ParseFails
    \/ ParseOk
    \/ Exit
    \/ Skip
    \/ VisitType
    \/ VisitFunc
    \/ VisitOther
    \/ PrintModel

Spec == Init /\ [][Next]_vars

\* ------------------------------------------------------------------- types
TypeOK ==
    /\ nfiles \in 1..MaxFiles
    /\ file \in 0..nfiles
    /\ pc \in {"next_file", "walking", "exit", "aborted"}
    /\ cause \in {"none", "parse", "panic"}
    /\ Len(children) <= MaxChildren
    /\ Len(type_origin) = Len(type_declares)
    /\ Len(function_origin) = Len(function_declares)

\* ------------------------------------------------------- reading the walk
TagKinds == {"EnumDecl", "StructDecl", "UnionDecl"}

NodeOf(kind) ==
    CASE kind = "EnumDecl" -> "EnumDeclare"
      [] kind = "StructDecl" -> "StructDeclare"
      [] kind = "UnionDecl" -> "UnionDeclare"
      [] OTHER -> "none"

\* this step is an iteration of the walk's loop: it reached one more entity.
Reached == pc = "walking" /\ Len(children') = Len(children) + 1
Reaching == children'[Len(children')]

\* the entity's members are of the kinds its node takes.
SupportedMembers(e) ==
    \A i \in DOMAIN e.children :
        /\ e.children[i].kind \in {"FieldDecl", "UnionDecl"}
        /\ \A j \in DOMAIN e.children[i].children :
              e.children[i].children[j].kind = "FieldDecl"

\* -------------------------------------------------------------------- C1
\* C1: every step of the walk that reaches a main-file Enum, Struct or Union
\* declaration with a name (and members its node takes) appends exactly one
\* node of the corresponding kind to type_declares, with that tag name and
\* no typedef alias, and the walk goes on.
C1_NamedTagAppended ==
    [][(/\ Reached
        /\ is_in_main_file(Reaching)
        /\ Reaching.kind \in TagKinds
        /\ Reaching.name # None
        /\ SupportedMembers(Reaching))
       => /\ pc' = "walking"
          /\ Len(type_declares') = Len(type_declares) + 1
          /\ SubSeq(type_declares', 1, Len(type_declares)) = type_declares
          /\ type_declares'[Len(type_declares')].node = NodeOf(Reaching.kind)
          /\ type_declares'[Len(type_declares')].name = Reaching.name
          /\ type_declares'[Len(type_declares')].typedef_name = None]_vars

\* -------------------------------------------------------------------- C2
\* every location a node and its members carry.
Locations(n) ==
    {n.location} \cup {n.fields[i].location : i \in DOMAIN n.fields}
    \cup UNION {{n.fields[i].fields[j].location : j \in DOMAIN n.fields[i].fields} :
                    i \in DOMAIN n.fields}

\* C2: no node of the model (type declaration, member, function, parameter)
\* was populated from an entity located outside the main file.
C2_OnlyMainFile ==
    /\ \A i \in DOMAIN type_declares : Locations(type_declares[i]) \subseteq {MainPath}
    /\ \A i \in DOMAIN function_declares : Locations(function_declares[i]) \subseteq {MainPath}

\* -------------------------------------------------------------------- C3
\* C3: every step of the walk that processes a main-file typedef while
\* type_declares holds a node whose tag name is the typedef's name leaves the
\* length of type_declares unchanged and leaves exactly one node with tag
\* name and alias both equal to that name.
C3_TypedefMerges ==
    [][(/\ Reached
        /\ pc' = "walking"
        /\ is_in_main_file(Reaching)
        /\ Reaching.kind = "TypedefDecl"
        /\ Reaching.name # None
        /\ \E i \in DOMAIN type_declares : type_declares[i].name = Reaching.name)
       => /\ Len(type_declares') = Len(type_declares)
          /\ Cardinality({i \in DOMAIN type_declares' :
                            /\ type_declares'[i].name = Reaching.name
                            /\ type_declares'[i].typedef_name = Reaching.name}) = 1]_vars

\* -------------------------------------------------------------------- C4
\* C4: an anonymous enum, struct or union reached at top level in the main
\* file is skipped (no node, the walk goes on), and a main-file typedef of an
\* anonymous enum, struct or union appends exactly one node of the
\* aggregate's kind, with no tag name, the typedef's name as alias, and the
\* location and members of the underlying entity, whatever precedes it.
C4_AnonymousTypedef ==
    [][/\ (/\ Reached
           /\ is_in_main_file(Reaching)
           /\ Reaching.kind \in TagKinds
           /\ Reaching.name = None
           /\ SupportedMembers(Reaching))
          => (pc' = "walking" /\ type_declares' = type_declares)
       /\ (/\ Reached
           /\ is_in_main_file(Reaching)
           /\ Reaching.kind = "TypedefDecl"
           /\ Reaching.name # None
           /\ Reaching.decl.kind \in TagKinds
           /\ Reaching.decl.name = None
           /\ SupportedMembers(Reaching.decl))
          => /\ pc' = "walking"
             /\ Len(type_declares') = Len(type_declares) + 1
             /\ SubSeq(type_declares', 1, Len(type_declares)) = type_declares
             /\ LET n == type_declares'[Len(type_declares')]
                IN /\ n.node = NodeOf(Reaching.decl.kind)
                   /\ n.name = None
                   /\ n.typedef_name = Reaching.name
                   /\ n.location = Reaching.decl.path
                   /\ Len(n.fields) = Len(Reaching.decl.children)]_vars

\* -------------------------------------------------------------------- C5
\* the top-level entities of `struct A; struct B; typedef struct A TA;`.
ABTA ==
    <<Tag("StructDecl", "A", MainPath, <<>>),
      Tag("StructDecl", "B", MainPath, <<>>),
      Top("TypedefDecl", "TA", MainPath, <<>>, Ent("StructDecl", "A", MainPath, <<>>), FALSE, <<>>)>>

\* C5 as stated: after walking `struct A; struct B; typedef struct A TA;`
\* type_declares is exactly [A with alias TA, B without alias].
C5_MergedInPlace ==
    (children = ABTA /\ pc = "walking")
    => /\ Len(type_declares) = 2
       /\ type_declares[1].name = "A" /\ type_declares[1].typedef_name = "TA"
       /\ type_declares[2].name = "B" /\ type_declares[2].typedef_name = None

\* C5 as amended: after walking `struct A; struct B; typedef struct A TA;`
\* type_declares is exactly three nodes in order: struct A and struct B,
\* both without alias, then a struct node with no tag name and alias TA.
C5_TypedefAppended ==
    (children = ABTA /\ pc = "walking")
    => /\ Len(type_declares) = 3
       /\ type_declares[1] = Node("StructDeclare", "A", None, MainPath, <<>>)
       /\ type_declares[2] = Node("StructDeclare", "B", None, MainPath, <<>>)
       /\ type_declares[3] = Node("StructDeclare", None, "TA", MainPath, <<>>)

C5_Witness == children = ABTA /\ pc = "walking" /\ Len(type_declares) = 3

\* -------------------------------------------------------------------- C6
\* a node but for its alias.
Unaliased(n) == [n EXCEPT !.typedef_name = None]

Increasing(s) == \A i, j \in DOMAIN s : i < j => s[i] < s[j]

\* the nodes of both sequences stand in the order of the main-file entities
\* that appended them.
C6_InEntityOrder ==
    /\ Increasing(type_origin)
    /\ Increasing(function_origin)
    /\ \A i \in DOMAIN type_declares :
          /\ type_origin[i] \in DOMAIN children
          /\ LET e == children[type_origin[i]]
             IN /\ is_in_main_file(e)
                /\ \/ e.kind \in TagKinds /\ type_declares[i].node = NodeOf(e.kind)
                                          /\ type_declares[i].name = e.name
                   \/ e.kind = "TypedefDecl" /\ type_declares[i].node = NodeOf(e.decl.kind)
                                             /\ type_declares[i].name = None
                                             /\ type_declares[i].typedef_name = e.name
    /\ \A i \in DOMAIN function_declares :
          /\ function_origin[i] \in DOMAIN children
          /\ LET e == children[function_origin[i]]
             IN /\ is_in_main_file(e)
                /\ e.kind = "FunctionDecl"
                /\ function_declares[i].name = e.name

\* the typedef this step reaches takes the merge branch.
MergeStep ==
    /\ Reached
    /\ is_in_main_file(Reaching)
    /\ Reaching.kind = "TypedefDecl"
    /\ Reaching.decl # NoDecl
    /\ \E i \in DOMAIN type_declares :
          type_declares[i].name # None /\ type_declares[i].name = Reaching.name

\* C6: at every point of the walk both sequences list their nodes in the
\* order of the main-file top-level entities that created them; a step of
\* the walk only appends at the end (at most one node), keeps every existing
\* node at its position with its kind, tag name and members, and in the merge
\* case keeps the length and changes the alias of one node at most.
C6_OrderPreserved ==
    /\ []C6_InEntityOrder
    /\ [][(pc = "walking" /\ pc' # "next_file")
          => /\ Len(type_declares') \in {Len(type_declares), Len(type_declares) + 1}
             /\ \A i \in DOMAIN type_declares :
                   Unaliased(type_declares'[i]) = Unaliased(type_declares[i])
             /\ Len(function_declares') \in {Len(function_declares), Len(function_declares) + 1}
             /\ SubSeq(function_declares', 1, Len(function_declares)) = function_declares
             /\ MergeStep
                => /\ Len(type_declares') = Len(type_declares)
                   /\ function_declares' = function_declares
                   /\ Cardinality({i \in DOMAIN type_declares :
                                      type_declares'[i] # type_declares[i]}) <= 1]_vars

\* a merge has set the alias of the first node while a later node follows it.
C6_Witness ==
    /\ Len(type_declares) >= 2
    /\ type_declares[1].name # None
    /\ type_declares[1].typedef_name = type_declares[1].name
    /\ children[Len(children)].kind = "TypedefDecl"

\* -------------------------------------------------------------------- C7
\* C7: every step of the walk that reaches a main-file typedef whose
\* underlying type does not resolve to an enum, struct or union declaration
\* aborts the run.
C7_UnsupportedTypedefFatal ==
    [][(/\ Reached
        /\ is_in_main_file(Reaching)
        /\ Reaching.kind = "TypedefDecl"
        /\ Reaching.decl.kind \notin TagKinds)
       => (pc' = "aborted" /\ type_declares' = type_declares)]_vars

\* -------------------------------------------------------------------- C8
\* a main-file function without a name, or with a parameter without a name.
MissingName(e) ==
    /\ is_in_main_file(e)
    /\ e.kind = "FunctionDecl"
    /\ \/ e.name = None
       \/ e.has_args /\ \E i \in DOMAIN e.args : e.args[i].name = None

\* C8: once the walk has reached a main-file function that has no name or
\* has a parameter without a name, the run is aborted at that entity (it is
\* the last one reached) and the file's model has not been printed.
C8_FatalOnMissingName ==
    \A i \in DOMAIN children :
        MissingName(children[i])
        => /\ pc = "aborted"
           /\ cause = "panic"
           /\ i = Len(children)
           /\ status[file] = "pending"

\* the walk aborted on a parameter without a name after it had already
\* recorded a declaration.
C8_Witness ==
    /\ pc = "aborted"
    /\ Len(children) >= 2
    /\ MissingName(children[Len(children)])
    /\ children[Len(children)].name # None
    /\ Len(type_declares) + Len(function_declares) >= 1
    /\ status[file] = "pending"

\* -------------------------------------------------------------------- C9
\* C9: when the run has stopped on a parse failure, every file of the
\* invocation other than the failing one has been processed.
C9_ParseFailureIsolated ==
    cause = "parse" => \A f \in 1..nfiles : f # file => status[f] # "pending"

\* ------------------------------------------------------------------- C10
HasName(n) == n.name # None \/ n.typedef_name # None

NestedUnions(n) == {n.fields[i] : i \in {j \in DOMAIN n.fields : n.fields[j].node = "UnionDeclare"}}

\* C10 as stated: every node of type_declares and every nested union stored
\* as a struct member has a tag name or a typedef alias.
C10_NamePresence ==
    \A i \in DOMAIN type_declares :
        /\ HasName(type_declares[i])
        /\ \A u \in NestedUnions(type_declares[i]) : HasName(u)

\* C10 as amended: every node of type_declares has a tag name or a typedef
\* alias unless a typedef entity without a name created it; a nested union
\* stored as a struct member never has an alias.
C10_TopLevelNamePresence ==
    \A i \in DOMAIN type_declares :
        /\ \/ HasName(type_declares[i])
           \/ /\ children[type_origin[i]].kind = "TypedefDecl"
              /\ children[type_origin[i]].name = None
        /\ \A u \in NestedUnions(type_declares[i]) : u.typedef_name = None

\* the model holds a node a named typedef created and a struct with an
\* anonymous nested union.
C10_Witness ==
    /\ \E i \in DOMAIN type_declares :
          type_declares[i].name = None /\ type_declares[i].typedef_name # None
    /\ \E i \in DOMAIN type_declares :
          \E u \in NestedUnions(type_declares[i]) : ~HasName(u)

\* ------------------------------------------------------------------- C11
\* every node of type_declares that has a tag name and an alias has them
\* equal, and a node without a tag name was created by a typedef.
C11_AliasIsTag ==
    \A i \in DOMAIN type_declares :
        /\ (type_declares[i].name # None /\ type_declares[i].typedef_name # None)
              => type_declares[i].typedef_name = type_declares[i].name
        /\ type_declares[i].name = None
              => children[type_origin[i]].kind = "TypedefDecl"

\* the first node of type_declares with this tag name (0: none).
FirstTagged(name) ==
    IF \E i \in DOMAIN type_declares : type_declares[i].name = name
    THEN CHOOSE i \in DOMAIN type_declares :
            /\ type_declares[i].name = name
            /\ \A j \in 1..(i - 1) : type_declares[j].name # name
    ELSE 0

\* C11: in every state a node of type_declares with both a tag name and an
\* alias has them equal; a step changes the alias of a node only when it
\* reaches a typedef whose name is that node's tag name, and a merge sets the
\* alias of the first node with the matching tag name only, leaving every
\* other node and function_declares unchanged.
C11_MergeOnFirstMatch ==
    /\ []C11_AliasIsTag
    /\ [][(pc = "walking" /\ pc' # "next_file")
          => /\ \A i \in DOMAIN type_declares :
                   type_declares'[i].typedef_name # type_declares[i].typedef_name
                   => /\ MergeStep
                      /\ type_declares[i].name = Reaching.name
             /\ MergeStep
                => /\ type_declares' =
                         [type_declares EXCEPT ![FirstTagged(Reaching.name)].typedef_name =
                                                    Reaching.name]
                   /\ function_declares' = function_declares]_vars

\* two nodes have the same tag name, and a merge has set the alias of the
\* first one only.
C11_Witness ==
    /\ Len(type_declares) >= 2
    /\ type_declares[1].name # None
    /\ type_declares[2].name = type_declares[1].name
    /\ type_declares[1].typedef_name = type_declares[1].name
    /\ type_declares[2].typedef_name = None
    /\ children[Len(children)].kind = "TypedefDecl"

====
